---- MODULE Spec2Model ----
(***************************************************************************)
(* State-machine model of the investor-sentiment ETL pipeline              *)
(* (src/etl.py over the keyed store of src/db.py).                         *)
(*                                                                         *)
(* Scores are kept in hundredths (0.25 is 25).  A calendar date is a day   *)
(* number; a stored timestamp is the day it falls on.  Article and Mention *)
(* ids are the row's position in its table (the store assigns them in      *)
(* insertion order).                                                       *)
(***************************************************************************)
EXTENDS Integers, Sequences, FiniteSets, TLC

(* ------------------------------ bounds -------------------------------- *)
\* Direct calls started in one behaviour.
MaxOps == 3
\* Pipeline runs started in one behaviour.
MaxRuns == 2
\* Topics in one service response.
MaxTopics == 2

(* ------------------------- program constants --------------------------- *)
chunk_size == 7
PositiveThreshold == 25
NegativeThreshold == -25
ImprovingThreshold == 10
DecliningThreshold == -10
TrendOffsetDays == 3
TopTopicCount == 5
BriefTopicCount == 3
MAX_ARTICLES_PER_REQUEST == 100
MinArticlesPerChunk == 10

(* ------------------------------ inputs --------------------------------- *)
Procs == {1, 2}
Tickers == {"TSLA", "NVDA"}
None == "None"
\* article.get("publishedAt") of an entry without one.
NoDate == 0
\* datetime.now() falls on this day; articles are published on earlier days.
Today == 7
Days == {1, 4, 6, Today}
DaysBackChoices == {7, 10}
\* The lookbacks of the runs that only extract: up to three sub-windows.
Lookbacks == 1..15
\* How many articles an "ok" search response may hold.
PageSizes == {0, 1}

\* What the news source can return: an entry has a url; its title, its
\* publishedAt and its description/content may be absent (null).
Candidates ==
  { [url |-> "u1", title |-> TRUE,  publishedAt |-> 1,    body |-> TRUE],
    [url |-> "u2", title |-> TRUE,  publishedAt |-> 4,    body |-> TRUE],
    [url |-> "u3", title |-> TRUE,  publishedAt |-> NoDate, body |-> TRUE],
    [url |-> "u4", title |-> FALSE, publishedAt |-> 4,    body |-> TRUE],
    [url |-> "u5", title |-> TRUE,  publishedAt |-> 4,    body |-> FALSE] }

\* Outcome of one search request: transport/HTTP error, a body that is not
\* the expected JSON envelope, a non-"ok" status, or "ok" with articles.
RequestOutcomes == {"transport_error", "malformed", "not_ok", "ok"}

(* ------------------- the text service's responses ---------------------- *)
\* Scores the service may send, in hundredths (150 is 1.5: out of range).
ScoreValues == {-25, 0, 25, 150}
\* The "sentiment" field: a JSON number, a numeric string, or null.
Sentiments ==
  [kind : {"num"}, v : ScoreValues]
  \cup {[kind |-> "numstr", v |-> 25], [kind |-> "null", v |-> 0]}
\* The "label" field: a string, or null.
Labels == {"positive", "negative", "neutral", "Positive", "mixed", None}
RawTopics == {"Regulatory Concerns", "Earnings ", "earnings", " "}
TopicLists == UNION {[1..n -> RawTopics] : n \in 0..MaxTopics}
\* How the JSON object sits in the response text.
TextForms == {"json", "fenced", "json_then_prose", "json_then_braces", "prose"}
RequiredFields == {"sentiment", "label", "topics"}
\* Two longer topic lists: one with duplicates that differ in case and in
\* trailing blanks, one with four different topics.
ExampleTopics == <<"Regulatory Concerns", "regulatory concerns", "Earnings ">>
LongTopics == <<"Regulatory Concerns", "Earnings ", "guidance", "margins">>
\* The parsed object: the fields it has and their values.  Every sentiment
\* with every label, and every topic list.
Payloads ==
  [fields : {RequiredFields}, sentiment : Sentiments, label : Labels,
   topics : {<<>>}]
  \cup
  [fields : {RequiredFields}, sentiment : {[kind |-> "num", v |-> 0]},
   label : {"neutral"}, topics : TopicLists \cup {ExampleTopics, LongTopics}]
  \cup
  [fields : {RequiredFields \ {f} : f \in RequiredFields},
   sentiment : {[kind |-> "num", v |-> 25]}, label : {"positive"},
   topics : {<<>>}]
HasAll(payload) == payload.fields = RequiredFields
DefaultPayload ==
  [fields |-> RequiredFields, sentiment |-> [kind |-> "num", v |-> 0],
   label |-> "neutral", topics |-> <<>>]
\* messages.create either raises or returns a text.
ScoringResponses ==
  {[kind |-> "error", form |-> "prose", payload |-> DefaultPayload]}
  \cup [kind : {"text"}, form : {"json_then_braces", "prose"},
        payload : {DefaultPayload}]
  \cup [kind : {"text"}, form : {"fenced", "json_then_prose"},
        payload : {DefaultPayload}]
  \cup [kind : {"text"}, form : {"json"}, payload : Payloads]
\* The responses drawn while a pipeline runs: a failed call, a text without
\* JSON, and answers over the score ranges, one with a label that is valid
\* but disagrees with the score.
PipelineResponses ==
  {r \in ScoringResponses :
     \/ r.kind = "error"
     \/ r.form = "prose"
     \/ /\ r.form = "json"
        /\ HasAll(r.payload)
        /\ <<r.payload.sentiment.kind, r.payload.sentiment.v,
              r.payload.label, r.payload.topics>> \in
             { <<"num", 25, "mixed", <<>> >>,
               <<"num", -25, "positive", <<>> >>,
               <<"num", 0, "neutral", <<"Earnings ">> >> }}
BriefOutcomes == {"text", "error"}

(* --------------------------- pure functions ---------------------------- *)
\* str.lower() of the labels the service may send.
Lower(s) ==
  CASE s = "Positive" -> "positive"
    [] s = "Regulatory Concerns" -> "regulatory concerns"
    [] s = "Earnings " -> "earnings "
    [] OTHER -> s

\* str.strip() of the lowercased topics and of the service's answers.
Strip(s) ==
  CASE s = "earnings " -> "earnings"
    [] s = " " -> ""
    [] s = " answer " -> "answer"
    [] OTHER -> s

\* Lines 156-171: strip a code fence, cut from the first "{" to the last "}",
\* json.loads.  TRUE when json.loads returns the object.
JsonLoads(form) == form \in {"json", "fenced", "json_then_prose"}

\* Mutant: the field check is skipped.
HasRequiredFieldsUnchecked(payload) == TRUE

\* Line 174: all three fields are in the parsed object.
HasRequiredFields(payload) == RequiredFields \subseteq payload.fields

RECURSIVE NormalizeFrom(_, _, _)
NormalizeFrom(topics, i, acc) ==
  IF i > Len(topics) THEN acc
  ELSE LET normalized == Strip(Lower(topics[i]))
       IN  IF normalized # "" /\ \A k \in 1..Len(acc) : acc[k] # normalized
           THEN NormalizeFrom(topics, i + 1, Append(acc, normalized))
           ELSE NormalizeFrom(topics, i + 1, acc)

\* Mutant: every topic is lowercased and trimmed, and all are kept.
NormalizeKeepAll(topics) ==
  [i \in 1..Len(topics) |-> Strip(Lower(topics[i]))]

\* Lines 177-186.
NormalizeTopics(topics) == NormalizeFrom(topics, 1, <<>>)

ValidLabels == {"negative", "neutral", "positive"}

\* Lines 193-198 and 300-305: the label of a score.
LabelOfScore(score) ==
  IF score >= PositiveThreshold THEN "positive"
  ELSE IF score <= NegativeThreshold THEN "negative"
  ELSE "neutral"

\* Lines 189-198: the label to store; the fallback compares the raw
\* sentiment with a float, which raises unless it is a number.
LabelRaises(payload) ==
  \/ payload.label = None
  \/ /\ Lower(payload.label) \notin ValidLabels
     /\ payload.sentiment.kind # "num"

NormalizeLabel(payload) ==
  IF Lower(payload.label) \in ValidLabels THEN Lower(payload.label)
  ELSE LabelOfScore(payload.sentiment.v)

\* Line 204: float(sentiment) raises on null.
FloatRaises(sentiment) == sentiment.kind = "null"
Float(sentiment) == sentiment.v

(* ------------------------------- store --------------------------------- *)
\* A Mention row as a caller sees it; id 0 stands for Python's None.
NoMention ==
  [id |-> 0, article_id |-> 0, ticker |-> None,
   score |-> [kind |-> "null", v |-> 0], label |-> None, topics |-> <<>>]

\* A daily_agg row; article_count 0 stands for "no row".
NoBrief ==
  [kind |-> "none", article_count |-> 0, label |-> None, sum |-> 0,
   topics |-> <<>>]
NoAgg ==
  [sum |-> 0, article_count |-> 0, trend |-> "none", top_topics |-> <<>>,
   brief |-> NoBrief]

\* db.get_article_by_url: is there a row with this url.
GetArticleByUrl(arts, url) == \E i \in 1..Len(arts) : arts[i].url = url

\* The store's unique constraint on articles.url rejects the insert.
UniqueViolation(arts, url) == \E i \in 1..Len(arts) : arts[i].url = url

\* Mutant: a duplicate insert answers with the id of the stored row.
InsertArticleIdOfExisting(arts, url) ==
  IF UniqueViolation(arts, url)
  THEN CHOOSE i \in 1..Len(arts) : arts[i].url = url
  ELSE Len(arts) + 1

\* db.insert_article: the id of the new row, or 0 (None) when the store
\* raised the unique-constraint error.
InsertArticleId(arts, url) ==
  IF UniqueViolation(arts, url) THEN 0 ELSE Len(arts) + 1

\* Mutant: the insert goes through although the url is stored.
InsertArticleRowsNoConstraint(arts, url, day) ==
  Append(arts, [url |-> url, day |-> day, late |-> FALSE])

InsertArticleRows(arts, url, day) ==
  IF UniqueViolation(arts, url) THEN arts
  ELSE Append(arts, [url |-> url, day |-> day, late |-> FALSE])

\* Mutant: the lookup never finds a row.
GetMentionByArticleMiss(ms, article_id) == 0

\* db.get_mention_by_article: the first row of the article, whatever its
\* ticker; 0 when there is none.
GetMentionByArticle(ms, article_id) ==
  IF \E i \in 1..Len(ms) : ms[i].article_id = article_id
  THEN CHOOSE i \in 1..Len(ms) :
         /\ ms[i].article_id = article_id
         /\ \A j \in 1..(i - 1) : ms[j].article_id # article_id
  ELSE 0

\* The row as get_mention_by_article returns it: the stored float score.
MentionRow(ms, i) ==
  [id |-> i, article_id |-> ms[i].article_id, ticker |-> ms[i].ticker,
   score |-> [kind |-> "num", v |-> ms[i].score], label |-> ms[i].label,
   topics |-> ms[i].topics]

\* Mutant: every timestamp of the day is inside the bounds.
PublishedOnWholeDay(a, date) == a.day = date

\* db.py lines 114-115: published_at >= date 00:00:00 and < date 23:59:59;
\* "late" marks a timestamp of the day's last second.
PublishedOn(a, date) == a.day = date /\ ~a.late

\* db.get_mentions_by_date: the ids of the ticker's mentions on articles
\* published that day, in table order, from row i on.
RECURSIVE MentionsOfDay(_, _, _, _, _)
MentionsOfDay(arts, ms, ticker, date, i) ==
  IF i > Len(ms) THEN <<>>
  ELSE IF /\ ms[i].ticker = ticker
          /\ ms[i].article_id \in 1..Len(arts)
          /\ PublishedOn(arts[ms[i].article_id], date)
       THEN <<i>> \o MentionsOfDay(arts, ms, ticker, date, i + 1)
       ELSE MentionsOfDay(arts, ms, ticker, date, i + 1)

GetMentionsByDate(arts, ms, ticker, date) ==
  MentionsOfDay(arts, ms, ticker, date, 1)

\* Mutant: a row that exists is kept (insert, not upsert).
InsertDailyAggKeep(agg, ticker, date, row) ==
  IF agg[ticker][date] # NoAgg THEN agg
  ELSE [agg EXCEPT ![ticker][date] = row]

\* db.insert_daily_agg: upsert of the whole row under its (ticker, date) key.
InsertDailyAgg(agg, ticker, date, row) ==
  [agg EXCEPT ![ticker][date] = row]

(* ----------------------------- aggregation ----------------------------- *)
RECURSIVE SumScores(_, _)
SumScores(ms, ids) ==
  IF ids = <<>> THEN 0 ELSE ms[Head(ids)].score + SumScores(ms, Tail(ids))

RECURSIVE Flatten(_, _)
Flatten(ms, ids) ==
  IF ids = <<>> THEN <<>> ELSE ms[Head(ids)].topics \o Flatten(ms, Tail(ids))

RECURSIVE FirstSeen(_, _, _)
FirstSeen(all, i, acc) ==
  IF i > Len(all) THEN acc
  ELSE IF \E k \in 1..Len(acc) : acc[k] = all[i]
       THEN FirstSeen(all, i + 1, acc)
       ELSE FirstSeen(all, i + 1, Append(acc, all[i]))

TopicCount(all, t) == Cardinality({i \in 1..Len(all) : all[i] = t})

\* Mutant: the topics stay in the dict's insertion order.
SortByCountUnsorted(keys, all) == keys

\* sorted(..., key=count, reverse=True): stable, so equal counts keep the
\* dict's insertion order.
RECURSIVE SortByCount(_, _)
SortByCount(keys, all) ==
  IF keys = <<>> THEN <<>>
  ELSE LET best == CHOOSE i \in 1..Len(keys) :
                     /\ \A j \in 1..Len(keys) :
                          TopicCount(all, keys[j]) <= TopicCount(all, keys[i])
                     /\ \A j \in 1..(i - 1) :
                          TopicCount(all, keys[j]) < TopicCount(all, keys[i])
           rest == [j \in 1..(Len(keys) - 1) |->
                      IF j < best THEN keys[j] ELSE keys[j + 1]]
       IN  <<keys[best]>> \o SortByCount(rest, all)

Take(seq, n) == SubSeq(seq, 1, IF Len(seq) < n THEN Len(seq) ELSE n)

\* Lines 254-267.
TopTopics(all) == Take(SortByCount(FirstSeen(all, 1, <<>>), all), TopTopicCount)

\* Mutant: the thresholds are exclusive.
TrendOfStrict(s1, n1, s2, n2) ==
  IF s1 * n2 - s2 * n1 > ImprovingThreshold * n1 * n2 THEN "improving"
  ELSE IF s1 * n2 - s2 * n1 < DecliningThreshold * n1 * n2 THEN "declining"
  ELSE "stable"

\* Lines 246-250: today's mean s1/n1 against the prior mean s2/n2, the
\* difference compared with the thresholds (all in hundredths).
TrendOf(s1, n1, s2, n2) ==
  IF s1 * n2 - s2 * n1 >= ImprovingThreshold * n1 * n2 THEN "improving"
  ELSE IF s1 * n2 - s2 * n1 <= DecliningThreshold * n1 * n2 THEN "declining"
  ELSE "stable"

\* Lines 299-305: the label of a mean sum/n.
LabelOfMean(sum, n) ==
  IF sum >= PositiveThreshold * n THEN "positive"
  ELSE IF sum <= NegativeThreshold * n THEN "negative"
  ELSE "neutral"

\* Mutant: a failed call leaves no brief.
GenerateIrBriefNoFallback(outcome, n, sum, top_topics) == NoBrief

\* generate_ir_brief: the service's text, or the template on failure.
GenerateIrBrief(outcome, n, sum, top_topics) ==
  IF outcome = "text"
  THEN [kind |-> "service", article_count |-> 0, label |-> None, sum |-> 0,
        topics |-> <<>>]
  ELSE [kind |-> "template", article_count |-> n,
        label |-> LabelOfMean(sum, n), sum |-> sum,
        topics |-> Take(top_topics, BriefTopicCount)]

\* Mutant: the early return is gone.
NoDataNever(ids) == FALSE

\* Lines 233-234: "if not mentions".
NoData(ids) == ids = <<>>

\* create_daily_summary's row for (ticker, date) from the day's mentions.
DailySummary(arts, ms, agg, ticker, date, outcome) ==
  LET ids == GetMentionsByDate(arts, ms, ticker, date)
      sum == SumScores(ms, ids)
      n == Len(ids)
      prev_date == date - TrendOffsetDays
      prev_agg == IF prev_date \in Days THEN agg[ticker][prev_date] ELSE NoAgg
      trend == IF prev_agg # NoAgg
               THEN TrendOf(sum, n, prev_agg.sum, prev_agg.article_count)
               ELSE "stable"
      top_topics == TopTopics(Flatten(ms, ids))
  IN  [sum |-> sum, article_count |-> n, trend |-> trend,
       top_topics |-> top_topics,
       brief |-> GenerateIrBrief(outcome, n, sum, top_topics)]

(* ------------------------------- state --------------------------------- *)
VARIABLES
  articles,    \* the articles table: rows [url, day, late], id = position
  mentions,    \* the mentions table: rows, id = position
  daily,       \* the daily_agg table, keyed by ticker and date
  run,         \* per caller: where its call stands, and its locals
  nops,        \* operations started so far
  scoreCalls,  \* per article id: messages.create calls made to score it
  lastScore,   \* the last analyze_sentiment call that returned
  prevScore,   \* the one before it
  lastAgg,     \* the last create_daily_summary call, and the row it met
  lastInsert,  \* the last db.insert_article call
  answer       \* the last answer_sentiment_question call

vars ==
  <<articles, mentions, daily, run, nops, scoreCalls, lastScore, prevScore,
    lastAgg, lastInsert, answer>>

\* No service call was made: there is no response.
NoResponse == [kind |-> "none", form |-> "prose", payload |-> DefaultPayload]

\* No create_daily_summary call was made yet.
NoAggCall ==
  [tick |-> 0, ticker |-> None, date |-> NoDate, svc |-> 0, ret |-> NoAgg,
   replaced |-> NoAgg, brief_call |-> "none"]

\* No answer_sentiment_question call was made yet.
NoAnswer ==
  [tick |-> 0, ticker |-> None, start_date |-> NoDate, end_date |-> NoDate,
   kind |-> "none", raw |-> None, text |-> None, related |-> <<>>,
   pool |-> <<>>, svc |-> 0, trend |-> "none"]

NoScoreCall ==
  [article_id |-> 0, ticker |-> None, svc |-> 0, resp |-> NoResponse,
   ret |-> NoMention, rows |-> 0]

\* The locals of run_pipeline / extract_news before the first statement.
IdleRun ==
  [pc |-> "idle", job |-> "none", ticker |-> None, days_back |-> 0,
   off |-> 0, left |-> 0, cand |-> CHOOSE c \in Candidates : c.url = "u1",
   new_articles |-> <<>>, idx |-> 1, dates |-> {},
   articles_fetched |-> 0, articles_analyzed |-> 0, days_summarized |-> 0,
   errors |-> 0,
   requests |-> 0, failed |-> 0, returned |-> {}, attempted |-> {},
   aggregated |-> {}, overlapped |-> FALSE,
   articles_per_chunk |-> 0, windows |-> <<>>]

Init ==
  /\ articles = <<>>
  /\ mentions = <<>>
  /\ daily = [t \in Tickers |-> [d \in Days |-> NoAgg]]
  /\ run = [p \in Procs |-> IdleRun]
  /\ nops = 0
  /\ scoreCalls = <<>>
  /\ lastScore = NoScoreCall
  /\ prevScore = NoScoreCall
  /\ lastAgg = NoAggCall
  /\ lastInsert = [tick |-> 0, url |-> None, id |-> 0]
  /\ answer = NoAnswer

\* The caller is inside run_pipeline.
InFlight(p) == run[p].job = "pipeline" /\ run[p].pc \notin {"idle", "done"}

CanStart(p, limit) == run[p].pc \in {"idle", "done"} /\ nops < limit

(* ------------------------------ extraction ----------------------------- *)
\* Mutant: the chunk's start is not held at from_date.
ChunkStartUnclamped(off, days_back) == off + chunk_size

\* Line 45: current_start = max(from_date, current_end - chunk_size), as
\* days back from now.
ChunkStart(off, days_back) ==
  IF off + chunk_size > days_back THEN days_back ELSE off + chunk_size

\* Line 41: the pageSize of every request of the call.
ArticlesPerChunk(days_back) ==
  LET share == MAX_ARTICLES_PER_REQUEST \div (days_back \div chunk_size + 1)
  IN  IF share > MinArticlesPerChunk THEN share ELSE MinArticlesPerChunk

\* Lines 56-58: the "to", "from" and "pageSize" of one request, the dates as
\* days back from now.
RequestParams(off, days_back, page_size) ==
  [to |-> off, from |-> ChunkStart(off, days_back), pageSize |-> page_size]

\* Mutant: a failed request ends the loop.
AfterFailureStop(off, days_back) == days_back

\* Lines 72 and 107-111: after a failed request current_end moves to the
\* chunk's start, and the loop goes on.
AfterFailure(off, days_back) == ChunkStart(off, days_back)

\* Mutant: the loop may be left while sub-windows remain.
ExtractDoneEarly(off, days_back) == TRUE

\* Line 44: the loop ends when current_end has reached from_date.
ExtractDone(off, days_back) == off >= days_back

\* run_pipeline(ticker, days_back) is called: lines 355-366, 30-43.
StartPipeline(p, tickers, lookbacks) ==
  /\ CanStart(p, MaxRuns)
  /\ \E t \in tickers, d \in lookbacks :
       run' = [q \in Procs |->
                 IF q = p
                 THEN [IdleRun EXCEPT !.pc = "extract", !.job = "pipeline",
                                      !.ticker = t, !.days_back = d,
                                      !.articles_per_chunk =
                                         ArticlesPerChunk(d),
                                      !.overlapped =
                                         \E o \in Procs : InFlight(o)]
                 ELSE IF InFlight(q)
                 THEN [run[q] EXCEPT !.overlapped = TRUE]
                 ELSE run[q]]
  /\ nops' = nops + 1
  /\ UNCHANGED <<answer, articles, mentions, daily, scoreCalls, lastScore,
                 prevScore, lastAgg, lastInsert>>

\* Lines 44-76 and 107-111: one search request and its outcome.
FetchChunk(p, sizes) ==
  /\ run[p].pc = "extract"
  /\ run[p].off < run[p].days_back
  /\ \E outcome \in RequestOutcomes, n \in sizes :
       run' = [run EXCEPT ![p] =
                 LET params == RequestParams(run[p].off, run[p].days_back,
                                             run[p].articles_per_chunk)
                 IN  IF outcome = "ok"
                     THEN [@ EXCEPT !.pc = "page", !.left = n,
                                    !.requests = @ + 1,
                                    !.windows = Append(@, params)]
                     ELSE [@ EXCEPT !.off = AfterFailure(@, run[p].days_back),
                                    !.requests = @ + 1, !.failed = @ + 1,
                                    !.windows = Append(@, params)]]
  /\ UNCHANGED <<answer, articles, mentions, daily, nops, scoreCalls,
                 lastScore, prevScore, lastAgg, lastInsert>>

\* Lines 79-87: the next article of the response; skipped when it lacks a
\* title or its url is already stored.
CheckArticle(p) ==
  /\ run[p].pc = "page"
  /\ run[p].left > 0
  /\ \E c \in Candidates :
       run' = [run EXCEPT ![p] =
                 IF ~c.title
                 THEN [@ EXCEPT !.left = @ - 1]
                 ELSE IF GetArticleByUrl(articles, c.url)
                 THEN [@ EXCEPT !.left = @ - 1,
                                !.returned = @ \cup {c.url}]
                 ELSE [@ EXCEPT !.pc = "insert", !.cand = c,
                                !.returned = @ \cup {c.url}]]
  /\ UNCHANGED <<answer, articles, mentions, daily, nops, scoreCalls,
                 lastScore, prevScore, lastAgg, lastInsert>>

\* Line 94: published_at defaults to now when the entry has none.
StoredDay(c) == IF c.publishedAt = NoDate THEN Today ELSE c.publishedAt

\* Lines 90-105: insert the article; a null description and content raises
\* while the arguments are built, which line 107 catches: the rest of the
\* response is dropped.
InsertArticle(p) ==
  /\ run[p].pc = "insert"
  /\ LET c == run[p].cand
         id == InsertArticleId(articles, c.url)
     IN  IF ~c.body
         THEN /\ run' = [run EXCEPT ![p] =
                          [@ EXCEPT !.pc = "extract", !.left = 0,
                                    !.off = ChunkStart(@, run[p].days_back)]]
              /\ UNCHANGED <<articles, scoreCalls, lastInsert>>
         ELSE /\ articles' = InsertArticleRows(articles, c.url, StoredDay(c))
              /\ scoreCalls' = IF Len(articles') > Len(articles)
                                THEN Append(scoreCalls, 0) ELSE scoreCalls
              /\ lastInsert' = [tick |-> 1 - lastInsert.tick, url |-> c.url,
                                id |-> id]
              /\ run' = [run EXCEPT ![p] =
                          [@ EXCEPT !.pc = "page", !.left = @ - 1,
                             !.new_articles =
                                IF id # 0
                                THEN Append(@, [id |-> id,
                                       published_at |-> c.publishedAt])
                                ELSE @]]
  /\ UNCHANGED <<answer, mentions, daily, nops, lastScore, prevScore,
                 lastAgg>>

\* Line 111 after the last article of a response.
EndChunk(p) ==
  /\ run[p].pc = "page"
  /\ run[p].left = 0
  /\ run' = [run EXCEPT ![p] =
               [@ EXCEPT !.pc = "extract",
                         !.off = ChunkStart(@, run[p].days_back)]]
  /\ UNCHANGED <<answer, articles, mentions, daily, nops, scoreCalls,
                 lastScore, prevScore, lastAgg, lastInsert>>

\* Lines 113-114 and 367: extract_news returns.
ExtractReturn(p) ==
  /\ run[p].pc = "extract"
  /\ ExtractDone(run[p].off, run[p].days_back)
  /\ run' = [run EXCEPT ![p] =
               [@ EXCEPT !.pc = "score", !.idx = 1,
                         !.articles_fetched = Len(run[p].new_articles)]]
  /\ UNCHANGED <<answer, articles, mentions, daily, nops, scoreCalls,
                 lastScore, prevScore, lastAgg, lastInsert>>

(* ------------------------------- scoring ------------------------------- *)
\* The article analyze_sentiment is working on.
CurrentArticle(p) == run[p].new_articles[run[p].idx].id

\* Lines 142-218: TRUE when the try block reaches insert_mention.
ResponseAccepted(r) ==
  /\ r.kind = "text"
  /\ JsonLoads(r.form)
  /\ HasRequiredFields(r.payload)
  /\ ~LabelRaises(r.payload)
  /\ ~FloatRaises(r.payload.sentiment)

\* Lines 201-207: the row insert_mention writes.
NewMention(article_id, ticker, payload) ==
  [article_id |-> article_id, ticker |-> ticker,
   score |-> Float(payload.sentiment), label |-> NormalizeLabel(payload),
   topics |-> NormalizeTopics(payload.topics)]

\* Lines 209-214: the dict analyze_sentiment returns after the insert; it
\* carries the raw sentiment and neither article id nor ticker.
FreshResult(id, payload) ==
  [id |-> id, article_id |-> 0, ticker |-> None, score |-> payload.sentiment,
   label |-> NormalizeLabel(payload),
   topics |-> NormalizeTopics(payload.topics)]

\* Lines 371-379 / 127-130: the next article; a stored Mention is returned
\* without a service call.
AnalyzeCheck(p) ==
  /\ run[p].pc = "score"
  /\ run[p].idx <= Len(run[p].new_articles)
  /\ LET aid == CurrentArticle(p)
         existing == GetMentionByArticle(mentions, aid)
     IN  IF existing # 0
         THEN /\ run' = [run EXCEPT ![p] =
                          [@ EXCEPT !.idx = @ + 1,
                                    !.articles_analyzed = @ + 1,
                                    !.attempted = @ \cup {aid}]]
              /\ lastScore' = [article_id |-> aid, ticker |-> run[p].ticker,
                               svc |-> 0, resp |-> NoResponse,
                               ret |-> MentionRow(mentions, existing),
                               rows |-> Len(mentions)]
              /\ prevScore' = [lastScore EXCEPT !.resp = NoResponse]
         ELSE /\ run' = [run EXCEPT ![p] =
                          [@ EXCEPT !.pc = "call",
                                    !.attempted = @ \cup {aid}]]
              /\ UNCHANGED <<lastScore, prevScore>>
  /\ UNCHANGED <<answer, articles, mentions, daily, nops, scoreCalls, lastAgg,
                 lastInsert>>

\* Lines 132-218: the service call, the response handling, the insert.
AnalyzeCall(p, responses) ==
  /\ run[p].pc = "call"
  /\ \E r \in responses :
       LET aid == CurrentArticle(p)
           ok == ResponseAccepted(r)
       IN  /\ scoreCalls' = [scoreCalls EXCEPT ![aid] = @ + 1]
           /\ mentions' = IF ok
                           THEN Append(mentions,
                                  NewMention(aid, run[p].ticker, r.payload))
                           ELSE mentions
           /\ lastScore' = [article_id |-> aid, ticker |-> run[p].ticker,
                            svc |-> 1, resp |-> r,
                            ret |-> IF ok
                                    THEN FreshResult(Len(mentions) + 1,
                                                     r.payload)
                                    ELSE NoMention,
                            rows |-> Len(mentions')]
           /\ prevScore' = [lastScore EXCEPT !.resp = NoResponse]
           /\ run' = [run EXCEPT ![p] =
                       [@ EXCEPT !.pc = "score", !.idx = @ + 1,
                                 !.articles_analyzed =
                                    IF ok THEN @ + 1 ELSE @]]
  /\ UNCHANGED <<answer, articles, daily, nops, lastAgg, lastInsert>>

(* ----------------------------- aggregation ----------------------------- *)
\* Lines 383-386: the dates of the new articles; slicing the published_at
\* of an entry that has none raises, which line 395 catches.
BuildDates(p) ==
  /\ run[p].pc = "score"
  /\ run[p].job = "pipeline"
  /\ run[p].idx > Len(run[p].new_articles)
  /\ LET new == run[p].new_articles
     IN  run' = [run EXCEPT ![p] =
                   IF \E i \in 1..Len(new) : new[i].published_at = NoDate
                   THEN [@ EXCEPT !.pc = "done", !.errors = @ + 1]
                   ELSE [@ EXCEPT !.pc = "agg",
                           !.dates = {new[i].published_at : i \in 1..Len(new)}]]
  /\ UNCHANGED <<answer, articles, mentions, daily, nops, scoreCalls,
                 lastScore, prevScore, lastAgg, lastInsert>>

\* create_daily_summary(ticker, date): None without mentions, else the
\* brief's service call and the upsert.
Summarize(ticker, date, outcome) ==
  LET ids == GetMentionsByDate(articles, mentions, ticker, date)
      summary == DailySummary(articles, mentions, daily, ticker, date, outcome)
  IN  IF NoData(ids)
      THEN /\ daily' = daily
           /\ lastAgg' = [tick |-> 1 - lastAgg.tick, ticker |-> ticker,
                          date |-> date, svc |-> 0, ret |-> NoAgg,
                          replaced |-> daily[ticker][date],
                          brief_call |-> "none"]
      ELSE /\ daily' = InsertDailyAgg(daily, ticker, date, summary)
           /\ lastAgg' = [tick |-> 1 - lastAgg.tick, ticker |-> ticker,
                          date |-> date, svc |-> 1, ret |-> summary,
                          replaced |-> daily[ticker][date],
                          brief_call |-> outcome]

\* Lines 388-391: one date of the set, in the set's iteration order.
Aggregate(p) ==
  /\ run[p].pc = "agg"
  /\ run[p].dates # {}
  /\ \E d \in run[p].dates, outcome \in BriefOutcomes :
       /\ Summarize(run[p].ticker, d, outcome)
       /\ run' = [run EXCEPT ![p] =
                   [@ EXCEPT !.dates = @ \ {d},
                             !.aggregated = @ \cup {d},
                             !.days_summarized =
                                IF lastAgg'.ret # NoAgg THEN @ + 1 ELSE @]]
  /\ UNCHANGED <<answer, articles, mentions, nops, scoreCalls, lastScore,
                 prevScore, lastInsert>>

\* Lines 393-400: run_pipeline returns its results.
PipelineDone(p) ==
  /\ run[p].pc = "agg"
  /\ run[p].dates = {}
  /\ run' = [run EXCEPT ![p] = [@ EXCEPT !.pc = "done"]]
  /\ UNCHANGED <<answer, articles, mentions, daily, nops, scoreCalls,
                 lastScore, prevScore, lastAgg, lastInsert>>

(* ----------------------------- direct calls ---------------------------- *)
\* db.insert_article called on its own.
DirectInsert(p) ==
  /\ CanStart(p, MaxOps)
  /\ \E c \in {x \in Candidates : x.title /\ x.body} :
       LET id == InsertArticleId(articles, c.url)
       IN  /\ articles' = InsertArticleRows(articles, c.url, StoredDay(c))
           /\ scoreCalls' = IF Len(articles') > Len(articles)
                             THEN Append(scoreCalls, 0) ELSE scoreCalls
           /\ lastInsert' = [tick |-> 1 - lastInsert.tick, url |-> c.url,
                             id |-> id]
  /\ nops' = nops + 1
  /\ UNCHANGED <<answer, mentions, daily, run, lastScore, prevScore, lastAgg>>

\* analyze_sentiment called on its own for a stored article.
DirectAnalyze(p) ==
  /\ CanStart(p, MaxOps)
  /\ \E aid \in 1..Len(articles), t \in Tickers :
       run' = [run EXCEPT ![p] =
                 [IdleRun EXCEPT !.pc = "score", !.job = "score",
                    !.ticker = t,
                    !.new_articles =
                       <<[id |-> aid, published_at |-> NoDate]>>]]
  /\ nops' = nops + 1
  /\ UNCHANGED <<answer, articles, mentions, daily, scoreCalls, lastScore,
                 prevScore, lastAgg, lastInsert>>

\* analyze_sentiment, called on its own, returns.
AnalyzeReturn(p) ==
  /\ run[p].pc = "score"
  /\ run[p].job = "score"
  /\ run[p].idx > Len(run[p].new_articles)
  /\ run' = [run EXCEPT ![p] = [@ EXCEPT !.pc = "idle"]]
  /\ UNCHANGED <<answer, articles, mentions, daily, nops, scoreCalls,
                 lastScore, prevScore, lastAgg, lastInsert>>

\* create_daily_summary called on its own.
DirectSummary(p) ==
  /\ CanStart(p, MaxOps)
  /\ \E t \in Tickers, d \in Days, outcome \in BriefOutcomes :
       Summarize(t, d, outcome)
  /\ nops' = nops + 1
  /\ UNCHANGED <<answer, articles, mentions, run, scoreCalls, lastScore,
                 prevScore, lastInsert>>

(* --------------------------- specifications ---------------------------- *)
\* The steps of extract_news and of the aggregation loop of run_pipeline.
PipelineStep(p) ==
  \/ CheckArticle(p)
  \/ InsertArticle(p)
  \/ EndChunk(p)
  \/ ExtractReturn(p)
  \/ BuildDates(p)
  \/ Aggregate(p)
  \/ PipelineDone(p)

\* Sequential use of the store and of the stages, one call at a time.
Next ==
  \/ DirectInsert(1)
  \/ DirectAnalyze(1)
  \/ AnalyzeCheck(1)
  \/ AnalyzeCall(1, ScoringResponses)
  \/ AnalyzeReturn(1)
  \/ DirectSummary(1)

Spec == Init /\ [][Next]_vars

\* Sequential pipeline runs, and articles inserted between them.
RunNext ==
  \/ StartPipeline(1, {"TSLA"}, DaysBackChoices)
  \/ FetchChunk(1, PageSizes)
  \/ DirectInsert(1)
  \/ PipelineStep(1)
  \/ AnalyzeCheck(1)
  \/ AnalyzeCall(1, PipelineResponses)

RunSpec == Init /\ [][RunNext]_vars

\* Overlapping pipeline runs for one ticker: two callers of run_pipeline,
\* interleaved at every store access and service call.
PipeNext ==
  \E p \in Procs :
    \/ StartPipeline(p, {"TSLA"}, {chunk_size})
    \/ FetchChunk(p, PageSizes)
    \/ PipelineStep(p)
    \/ AnalyzeCheck(p)
    \/ AnalyzeCall(p, PipelineResponses)

PipeSpec == Init /\ [][PipeNext]_vars

\* extract_news alone, inside runs of every lookback of Lookbacks.
ExtractNext ==
  \/ StartPipeline(1, {"TSLA"}, Lookbacks)
  \/ FetchChunk(1, PageSizes)
  \/ CheckArticle(1)
  \/ InsertArticle(1)
  \/ EndChunk(1)
  \/ ExtractReturn(1)

ExtractSpec == Init /\ [][ExtractNext]_vars

\* The same with the loop of extract_news running on: every request returns
\* or raises, and the code between two requests has no blocking call.
ExtractFairSpec == ExtractSpec /\ WF_vars(ExtractNext)

\* Aggregation over a store that earlier runs filled: scored articles on
\* four days, and one article of day 4 that is not scored yet.
AggScores == {0, 5, 10, 25}
\* The scores of the articles of days 1, 4, 6 and 7: day 4 moves against
\* day 1 and day 7 against day 4 by every difference of AggScores.
AggScoreLists == {<<0, s, 0, 0>> : s \in AggScores}
AggArticles ==
  << [url |-> "a1", day |-> 1, late |-> FALSE],
     [url |-> "a2", day |-> 4, late |-> FALSE],
     [url |-> "a3", day |-> 6, late |-> FALSE],
     [url |-> "a4", day |-> Today, late |-> FALSE],
     [url |-> "a5", day |-> 4, late |-> FALSE] >>

\* The rows insert_mention wrote for the first articles, one score each.
StoredMentions(scores) ==
  [i \in 1..Len(scores) |->
     [article_id |-> i, ticker |-> "TSLA", score |-> scores[i],
      label |-> LabelOfScore(scores[i]), topics |-> <<"earnings">>]]

\* The responses drawn while aggregation is studied: a failed call and a
\* positive judgment.
AggResponses ==
  {r \in ScoringResponses :
     \/ r.kind = "error"
     \/ /\ r.form = "json"
        /\ HasAll(r.payload)
        /\ r.payload.sentiment = [kind |-> "num", v |-> 25]
        /\ r.payload.label = "positive"
        /\ r.payload.topics = <<>>}

AggInit ==
  /\ articles = AggArticles
  /\ \E scores \in AggScoreLists : mentions = StoredMentions(scores)
  /\ daily = [t \in Tickers |-> [d \in Days |-> NoAgg]]
  /\ run = [p \in Procs |-> IdleRun]
  /\ nops = 0
  /\ scoreCalls = [i \in 1..Len(AggArticles) |-> IF i <= 4 THEN 1 ELSE 0]
  /\ lastScore = NoScoreCall
  /\ prevScore = NoScoreCall
  /\ lastAgg = NoAggCall
  /\ lastInsert = [tick |-> 0, url |-> None, id |-> 0]
  /\ answer = NoAnswer

AggNext ==
  \/ DirectSummary(1)
  \/ DirectAnalyze(1)
  \/ AnalyzeCheck(1)
  \/ AnalyzeCall(1, AggResponses)
  \/ AnalyzeReturn(1)

AggSpec == AggInit /\ [][AggNext]_vars

\* One day in detail: three scored articles of day 4, the third of which
\* may carry a timestamp of the day's last second, one of day 1, and one
\* of day 4 that is scored for the other ticker.
DayArticles(late) ==
  << [url |-> "d1", day |-> 4, late |-> FALSE],
     [url |-> "d2", day |-> 4, late |-> FALSE],
     [url |-> "d3", day |-> 4, late |-> late],
     [url |-> "d4", day |-> 1, late |-> FALSE],
     [url |-> "d5", day |-> 4, late |-> FALSE] >>
\* The scores of the three articles of day 4.
DayScoreLists == {<<60, -20, 40>>, <<25, 25, 25>>, <<-100, 0, 24>>}
\* The stored topic lists of one Mention.
DayTopicLists ==
  { <<>>, <<"earnings", "guidance", "margins">>,
    <<"recall", "lawsuit", "robotaxi">>, <<"robotaxi", "margins">> }
\* The stores of DaySpec: every score list with one topic setting, and
\* every topic setting with one score list.
DayStores ==
  [late : BOOLEAN, scores : DayScoreLists,
   topics : {<< <<"earnings">>, <<"earnings">>, <<"earnings">> >>}]
  \cup
  [late : {FALSE}, scores : {<<60, -20, 40>>},
   topics : [1..3 -> DayTopicLists]]

\* The rows insert_mention wrote for the articles of a store.
DayMentionRows(store) ==
  [i \in 1..5 |->
     IF i <= 3
     THEN [article_id |-> i, ticker |-> "TSLA", score |-> store.scores[i],
           label |-> LabelOfScore(store.scores[i]),
           topics |-> store.topics[i]]
     ELSE IF i = 4
     THEN [article_id |-> 4, ticker |-> "TSLA", score |-> 0,
           label |-> "neutral", topics |-> <<"earnings">>]
     ELSE [article_id |-> 5, ticker |-> "NVDA", score |-> 100,
           label |-> "positive", topics |-> <<"chips">>]]

DayInit ==
  /\ \E store \in DayStores :
       /\ articles = DayArticles(store.late)
       /\ mentions = DayMentionRows(store)
  /\ daily = [t \in Tickers |-> [d \in Days |-> NoAgg]]
  /\ run = [p \in Procs |-> IdleRun]
  /\ nops = 0
  /\ scoreCalls = [i \in 1..5 |-> 1]
  /\ lastScore = NoScoreCall
  /\ prevScore = NoScoreCall
  /\ lastAgg = NoAggCall
  /\ lastInsert = [tick |-> 0, url |-> None, id |-> 0]
  /\ answer = NoAnswer

DayNext == DirectSummary(1)

DaySpec == DayInit /\ [][DayNext]_vars

(* -------------------------- question answering ------------------------- *)
\* The articles of the store answer_sentiment_question reads, newest first.
QaArticles ==
  << [url |-> "q1", day |-> 6, late |-> FALSE],
     [url |-> "q2", day |-> 6, late |-> FALSE],
     [url |-> "q3", day |-> 4, late |-> FALSE],
     [url |-> "q4", day |-> 4, late |-> FALSE],
     [url |-> "q5", day |-> 4, late |-> FALSE],
     [url |-> "q6", day |-> 1, late |-> FALSE],
     [url |-> "q7", day |-> 1, late |-> FALSE] >>
QaScores == {-50, 0, 50}
\* The sets of days that were aggregated before the question is asked.
QaAggregated == {{}, Days}
\* messages.create raises, or returns one of these texts.
QaOutcomes == {"error", "answer", " answer "}
NoDataMessage ==
  "No sentiment data available for this date range. Please fetch articles first."
ErrorMessage == "Error generating answer: ..."

EmptyDaily == [t \in Tickers |-> [d \in Days |-> NoAgg]]

\* db.get_daily_agg_range: the dates of [start, end] that have a row.
GetDailyAggRange(agg, ticker, start, end) ==
  {d \in Days : start <= d /\ d <= end /\ agg[ticker][d] # NoAgg}

\* The first Mention of the article for the ticker (mentions!inner with
\* company_ticker = ticker, then mentions[0]); 0 when there is none.
MentionFor(ms, aid, ticker) ==
  IF \E i \in 1..Len(ms) : ms[i].article_id = aid /\ ms[i].ticker = ticker
  THEN CHOOSE i \in 1..Len(ms) :
         /\ ms[i].article_id = aid /\ ms[i].ticker = ticker
         /\ \A j \in 1..(i - 1) :
              ~(ms[j].article_id = aid /\ ms[j].ticker = ticker)
  ELSE 0

\* gte(published_at, start_date) and lte(published_at, end_date): a
\* timestamp of the end date's day lies after the bare date it is compared
\* with, so the articles of that day are left out.
InDateRange(day, start, end) == start <= day /\ day < end

RECURSIVE ArticlesFrom(_, _, _, _, _, _)
ArticlesFrom(arts, ms, ticker, start, end, i) ==
  IF i > Len(arts) THEN <<>>
  ELSE IF /\ InDateRange(arts[i].day, start, end)
          /\ MentionFor(ms, i, ticker) # 0
       THEN <<i>> \o ArticlesFrom(arts, ms, ticker, start, end, i + 1)
       ELSE ArticlesFrom(arts, ms, ticker, start, end, i + 1)

\* list.sort(key): stable, ascending.
RECURSIVE SortAsc(_, _)
SortAsc(seq, key) ==
  IF seq = <<>> THEN <<>>
  ELSE LET first == CHOOSE i \in 1..Len(seq) :
                      /\ \A j \in 1..Len(seq) : key[seq[i]] <= key[seq[j]]
                      /\ \A j \in 1..(i - 1) : key[seq[i]] < key[seq[j]]
           rest == [j \in 1..(Len(seq) - 1) |->
                      IF j < first THEN seq[j] ELSE seq[j + 1]]
       IN  <<seq[first]>> \o SortAsc(rest, key)

\* list.sort(key, reverse=True): stable, descending.
RECURSIVE SortDesc(_, _)
SortDesc(seq, key) ==
  IF seq = <<>> THEN <<>>
  ELSE LET first == CHOOSE i \in 1..Len(seq) :
                      /\ \A j \in 1..Len(seq) : key[seq[i]] >= key[seq[j]]
                      /\ \A j \in 1..(i - 1) : key[seq[i]] > key[seq[j]]
           rest == [j \in 1..(Len(seq) - 1) |->
                      IF j < first THEN seq[j] ELSE seq[j + 1]]
       IN  <<seq[first]>> \o SortDesc(rest, key)

\* db.get_articles_by_date_range: the ticker's scored articles of the
\* range, ordered by published_at descending.
GetArticlesByDateRange(arts, ms, ticker, start, end) ==
  SortDesc(ArticlesFrom(arts, ms, ticker, start, end, 1),
           [i \in 1..Len(arts) |-> arts[i].day])

\* Line 466: the score each article enters the ranking with.
SentimentOf(arts, ms, ticker) ==
  [i \in 1..Len(arts) |->
     IF MentionFor(ms, i, ticker) # 0
     THEN ms[MentionFor(ms, i, ticker)].score ELSE 0]

LastOf(seq, n) ==
  SubSeq(seq, IF Len(seq) < n THEN 1 ELSE Len(seq) - n + 1, Len(seq))

\* Mutant: all three of the most positive are returned.
RelatedOfSix(sorted, key) ==
  SortAsc(LastOf(sorted, 3) \o Take(sorted, 3), key)

\* Lines 472-478: top_negative[:3] + top_positive[:2], sorted by score.
RelatedOf(sorted, key) ==
  SortAsc(Take(LastOf(sorted, 3), 3) \o Take(Take(sorted, 3), 2), key)

\* Mutant: the failure answer keeps the related articles.
OnFailureKeep(related) == related

\* Lines 523-527: "related_articles": [].
OnFailure(related) == <<>>

\* Mutant: the service is called although there is no aggregate.
NoDailyDataNever(dates) == FALSE

\* Line 423: "if not daily_data".
NoDailyData(dates) == dates = {}

\* The dates of a set in ascending order (order("date", desc=False)).
RECURSIVE DatesAsc(_)
DatesAsc(dates) ==
  IF dates = {} THEN <<>>
  ELSE LET first == CHOOSE d \in dates : \A e \in dates : d <= e
       IN  <<first>> \o DatesAsc(dates \ {first})

\* A mean is kept as the fraction n / d of hundredths, d > 0.
MeanOfRow(row) == [n |-> row.sum, d |-> row.article_count]
FracAdd(a, b) == [n |-> a.n * b.d + b.n * a.d, d |-> a.d * b.d]
RECURSIVE FracSum(_)
FracSum(seq) ==
  IF seq = <<>> THEN [n |-> 0, d |-> 1]
  ELSE FracAdd(Head(seq), FracSum(Tail(seq)))
\* sum(xs) / len(xs).
FracAvg(seq) == [n |-> FracSum(seq).n, d |-> FracSum(seq).d * Len(seq)]

\* Mutant: the thresholds are inclusive.
CompareMeansInclusive(recent, older) ==
  IF recent.n * older.d >= older.n * recent.d + 10 * recent.d * older.d
  THEN "improving"
  ELSE IF recent.n * older.d <= older.n * recent.d - 10 * recent.d * older.d
  THEN "declining"
  ELSE "stable"

\* Lines 438-443: recent_avg against older_avg + 0.1 and older_avg - 0.1.
CompareMeans(recent, older) ==
  IF recent.n * older.d > older.n * recent.d + 10 * recent.d * older.d
  THEN "improving"
  ELSE IF recent.n * older.d < older.n * recent.d - 10 * recent.d * older.d
  THEN "declining"
  ELSE "stable"

\* Lines 430-445: the trend put into the prompt, from the rows of the range
\* in ascending date order; there is none without rows (line 423 has
\* returned before).
ContextTrend(agg, ticker, dates) ==
  LET days == DatesAsc(dates)
      sentiments == [i \in 1..Len(days) |-> MeanOfRow(agg[ticker][days[i]])]
  IN  IF Len(sentiments) > 1
      THEN CompareMeans(FracAvg(LastOf(sentiments, 3)),
                        FracAvg(Take(sentiments, 3)))
      ELSE IF Len(sentiments) = 1 THEN agg[ticker][days[1]].trend
      ELSE "none"

\* Lines 456-478: the ranking of the range's scored articles
\* (articles_with_sentiment after the descending sort).
RankedArticles(ticker, start, end, key) ==
  SortDesc(GetArticlesByDateRange(articles, mentions, ticker, start, end),
           key)

\* answer_sentiment_question(ticker, question, start_date, end_date) with
\* the given outcome of its service call: what it returns, the ranked
\* articles it selected from, and the service calls it made.
AnswerOf(ticker, start, end, outcome, sorted, related) ==
  LET call == [tick |-> 1 - answer.tick, ticker |-> ticker,
               start_date |-> start, end_date |-> end]
      dates == GetDailyAggRange(daily, ticker, start, end)
  IN  IF NoDailyData(dates)
      THEN call @@ [kind |-> "no_data", raw |-> None, text |-> NoDataMessage,
                    related |-> <<>>, pool |-> <<>>, svc |-> 0,
                    trend |-> "none"]
      ELSE IF outcome = "error"
      THEN call @@ [kind |-> "error", raw |-> None, text |-> ErrorMessage,
                    related |-> OnFailure(related), pool |-> sorted,
                    svc |-> 1, trend |-> ContextTrend(daily, ticker, dates)]
      ELSE call @@ [kind |-> "text", raw |-> outcome, text |-> Strip(outcome),
                    related |-> Take(related, 5), pool |-> sorted, svc |-> 1,
                    trend |-> ContextTrend(daily, ticker, dates)]

\* One question is asked of the store.
AnswerQuestion(p, tickers) ==
  /\ run[p].pc \in {"idle", "done"}
  /\ answer = NoAnswer
  /\ \E t \in tickers, start \in Days, end \in Days :
       /\ start <= end
       /\ \E key \in {SentimentOf(articles, mentions, t)} :
            \E sorted \in {RankedArticles(t, start, end, key)} :
              \E related \in {RelatedOf(sorted, key)} :
                \E outcome \in QaOutcomes :
                  answer' = AnswerOf(t, start, end, outcome, sorted, related)
  /\ UNCHANGED <<articles, mentions, daily, run, nops, scoreCalls, lastScore,
                 prevScore, lastAgg, lastInsert>>

\* The store before the question: the first articles are scored, and the
\* days of one of the sets QaAggregated are aggregated.
QaInit ==
  /\ articles = QaArticles
  /\ \E m \in 0..Len(QaArticles) :
       \E scores \in [1..m -> QaScores] : mentions = StoredMentions(scores)
  /\ \E done \in QaAggregated :
       daily = [t \in Tickers |-> [d \in Days |->
                  IF d \in done
                     /\ ~NoData(GetMentionsByDate(articles, mentions, t, d))
                  THEN DailySummary(articles, mentions, EmptyDaily, t, d,
                                    "error")
                  ELSE NoAgg]]
  /\ run = [p \in Procs |-> IdleRun]
  /\ nops = 0
  /\ scoreCalls = [i \in 1..Len(QaArticles) |->
                     IF i <= Len(mentions) THEN 1 ELSE 0]
  /\ lastScore = NoScoreCall
  /\ prevScore = NoScoreCall
  /\ lastAgg = NoAggCall
  /\ lastInsert = [tick |-> 0, url |-> None, id |-> 0]
  /\ answer = NoAnswer

QaNext == AnswerQuestion(1, {"TSLA"})

QaSpec == QaInit /\ [][QaNext]_vars

\* Questions over four aggregated days: one scored article on each of the
\* days 1, 4, 6 and 7, the days aggregated in ascending order.
TrendArticles ==
  << [url |-> "t1", day |-> 1, late |-> FALSE],
     [url |-> "t2", day |-> 4, late |-> FALSE],
     [url |-> "t3", day |-> 6, late |-> FALSE],
     [url |-> "t4", day |-> Today, late |-> FALSE] >>
\* Scores whose means the code's double arithmetic orders as the exact
\* arithmetic of the model does, differences of exactly 0.1 included.
TrendScores == {-30, 0, 30}

\* create_daily_summary called for each date of the sequence in turn.
RECURSIVE SummarizeAll(_, _, _, _, _)
SummarizeAll(arts, ms, agg, ticker, dates) ==
  IF dates = <<>> THEN agg
  ELSE SummarizeAll(arts, ms,
         InsertDailyAgg(agg, ticker, Head(dates),
           DailySummary(arts, ms, agg, ticker, Head(dates), "text")),
         ticker, Tail(dates))

TrendInit ==
  /\ articles = TrendArticles
  /\ \E scores \in [1..4 -> TrendScores] : mentions = StoredMentions(scores)
  /\ daily = SummarizeAll(articles, mentions, EmptyDaily, "TSLA",
                          DatesAsc(Days))
  /\ run = [p \in Procs |-> IdleRun]
  /\ nops = 0
  /\ scoreCalls = [i \in 1..4 |-> 1]
  /\ lastScore = NoScoreCall
  /\ prevScore = NoScoreCall
  /\ lastAgg = NoAggCall
  /\ lastInsert = [tick |-> 0, url |-> None, id |-> 0]
  /\ answer = NoAnswer

TrendNext == AnswerQuestion(1, {"TSLA"})

TrendSpec == TrendInit /\ [][TrendNext]_vars

(* ------------------------------- claims -------------------------------- *)
HasMention(aid) == \E i \in 1..Len(mentions) : mentions[i].article_id = aid
MentionsOf(aid) == {i \in 1..Len(mentions) : mentions[i].article_id = aid}
Stored(url) == \E i \in 1..Len(articles) : articles[i].url = url

\* C1: the store holds at most one Article per URL, and an insert_article
\* call for a URL that is already stored adds no row, changes no row and
\* returns "already exists" (no id).
C1_OneArticlePerUrl ==
  /\ [](\A i, j \in 1..Len(articles) :
          articles[i].url = articles[j].url => i = j)
  /\ [][(lastInsert'.tick # lastInsert.tick /\ Stored(lastInsert'.url))
          => (articles' = articles /\ lastInsert'.id = 0)]_vars

\* An insert_article call met a stored URL, after a pipeline run stored it.
C1_Witness ==
  /\ lastInsert.id = 0
  /\ Stored(lastInsert.url)
  /\ run[1].pc = "done"
  /\ Len(run[1].new_articles) > 0

SameJudgment(a, b) ==
  a.score = b.score /\ a.label = b.label /\ a.topics = b.topics

ScoredTwice ==
  prevScore.article_id # 0 /\ prevScore.article_id = lastScore.article_id

C3_LabelMatchesScore ==
  \A i \in 1..Len(mentions) :
    /\ mentions[i].score >= 25 => mentions[i].label = "positive"
    /\ mentions[i].score <= -25 => mentions[i].label = "negative"
    /\ (mentions[i].score > -25 /\ mentions[i].score < 25)
         => mentions[i].label = "neutral"

\* The scoring loop of the run is over.
ScoringOver(p) == run[p].job = "pipeline" /\ run[p].pc \in {"agg", "done"}

\* C4: an article whose scoring failed, and that has no Mention, is scored
\* again by a later pipeline run in which the source returns it again.
C4_FailedArticleIsRetried ==
  \A aid \in 1..Len(articles) :
    ( /\ ScoringOver(1)
      /\ scoreCalls[aid] >= 1
      /\ ~HasMention(aid)
      /\ articles[aid].url \in run[1].returned )
    => aid \in run[1].attempted

\* The response is a failed call, a text json.loads rejects, or an object
\* without one of the three fields.
FailedResponse(r) ==
  \/ r.kind = "error"
  \/ r.kind = "text" /\ r.form \in {"prose", "json_then_braces"}
  \/ r.kind = "text" /\ r.payload.fields # {"sentiment", "label", "topics"}

\* C5: when the service call fails, or its response cannot be parsed or
\* lacks a required field, Scoring returns None to its caller, which goes
\* on, and the store is unchanged.
C5_FailureLeavesNoTrace ==
  [][\A p \in Procs :
       ( /\ run[p].pc = "call"
         /\ run'[p].pc # "call"
         /\ FailedResponse(lastScore'.resp) )
       => /\ mentions' = mentions
          /\ articles' = articles
          /\ daily' = daily
          /\ lastScore'.svc = 1
          /\ lastScore'.ret = NoMention
          /\ run'[p].pc = "score"
          /\ run'[p].articles_analyzed = run[p].articles_analyzed]_vars

\* A call on a stored article got an object without one of the fields and
\* returned None.
C5_Witness ==
  /\ lastScore.article_id \in 1..Len(articles)
  /\ lastScore.resp.kind = "text"
  /\ lastScore.resp.form = "json"
  /\ lastScore.resp.payload.fields # {"sentiment", "label", "topics"}
  /\ lastScore.ret = NoMention
  /\ run[1].pc = "idle"

\* C6: under sequential use the store holds at most one Mention per
\* (Article, ticker) pair.
C6_OneMentionPerPair ==
  \A i, j \in 1..Len(mentions) :
    ( /\ mentions[i].article_id = mentions[j].article_id
      /\ mentions[i].ticker = mentions[j].ticker )
    => i = j

\* An article was scored again after a failed call.
C6_Witness ==
  \E aid \in 1..Len(articles) :
    /\ scoreCalls[aid] >= 2
    /\ HasMention(aid)

\* Both runs are over, they overlapped, the source gave both the URL of
\* the article, and the article has a Mention.
OverlappedOn(aid) ==
  /\ \A p \in Procs :
       /\ run[p].pc = "done"
       /\ run[p].overlapped
       /\ articles[aid].url \in run[p].returned
  /\ HasMention(aid)

DoubleScored(aid) ==
  scoreCalls[aid] >= 2 /\ Cardinality(MentionsOf(aid)) >= 2

\* C7 as stated, on the runs it describes: two pipeline runs that overlap
\* on an article double-score it (two service calls, two Mentions).
C7_OverlapDoubleScores ==
  \A aid \in 1..Len(articles) : OverlappedOn(aid) => DoubleScored(aid)

\* C7, amended: however two pipeline runs overlap, no article is
\* double-scored: the service is called at most once per article, at most
\* one Mention per article is stored, and only one run holds the article
\* among its new articles.
C7_NoDoubleScore ==
  \A aid \in 1..Len(articles) :
    /\ scoreCalls[aid] <= 1
    /\ Cardinality(MentionsOf(aid)) <= 1
    /\ \A p, q \in Procs :
         ( /\ \E i \in 1..Len(run[p].new_articles) :
                run[p].new_articles[i].id = aid
           /\ \E i \in 1..Len(run[q].new_articles) :
                run[q].new_articles[i].id = aid )
         => p = q

\* Two overlapping runs were both given the article's URL, one of them met
\* the unique constraint, and the article has its one Mention.
C7_Witness ==
  \E aid \in 1..Len(articles) :
    /\ OverlappedOn(aid)
    /\ scoreCalls[aid] = 1
    /\ lastInsert.id = 0

\* C8: run_pipeline returns its counts, and a failure confined to one
\* article (a failed scoring, a missing publication timestamp) stops
\* neither the scoring of the other articles nor the aggregation of the
\* days of the other new articles.
C8_PartialFailureContinues ==
  run[1].pc = "done" =>
    LET new == run[1].new_articles
    IN  /\ run[1].articles_fetched = Len(new)
        /\ \A i \in 1..Len(new) : new[i].id \in run[1].attempted
        /\ \A i \in 1..Len(new) :
             new[i].published_at # NoDate
               => new[i].published_at \in run[1].aggregated

\* ceil(days_back / 7): the sub-windows of the lookback.
Windows(days_back) == (days_back + 6) \div 7

\* extract_news has returned to run_pipeline.
ExtractReturned(p) ==
  run[p].job = "pipeline" /\ run[p].pc \in {"score", "call", "agg", "done"}

\* C9: a failed search request counts as zero results: it changes neither
\* the store nor the articles collected so far, the remaining sub-windows
\* are still requested, and extract returns the collected articles without
\* raising.
C9_FailedWindowIsSkipped ==
  /\ [](\A p \in Procs :
          ExtractReturned(p) =>
            /\ run[p].requests = Windows(run[p].days_back)
            /\ run[p].articles_fetched = Len(run[p].new_articles)
            /\ \A i \in 1..Len(run[p].new_articles) :
                 /\ run[p].new_articles[i].id \in 1..Len(articles)
                 /\ articles[run[p].new_articles[i].id].url
                      \in run[p].returned)
  /\ [][\A p \in Procs :
          run'[p].failed # run[p].failed /\ run[p].pc = "extract"
          => /\ articles' = articles
             /\ run'[p].new_articles = run[p].new_articles
             /\ run'[p].errors = 0
             /\ run'[p].pc = "extract"]_vars

\* One of two requests failed, and extract returned the article of the
\* other window.
C9_Witness ==
  /\ run[1].pc = "score"
  /\ run[1].job = "pipeline"
  /\ run[1].requests = 2
  /\ run[1].failed = 1
  /\ Len(run[1].new_articles) = 1

\* There is no Mention of the ticker on an article published that day.
NoMentionFor(ticker, date) ==
  ~ \E i \in 1..Len(mentions) :
      /\ mentions[i].ticker = ticker
      /\ articles[mentions[i].article_id].day = date

\* C10: aggregate(ticker, date) with no Mention for (ticker, date) returns
\* None, calls no service and writes nothing.
C10_NoDataWritesNothing ==
  [][(lastAgg'.tick # lastAgg.tick
        /\ NoMentionFor(lastAgg'.ticker, lastAgg'.date))
      => /\ lastAgg'.ret = NoAgg
         /\ lastAgg'.svc = 0
         /\ daily' = daily
         /\ mentions' = mentions
         /\ articles' = articles]_vars

\* aggregate returned None for a day without Mentions of the ticker, with
\* a Mention of the other ticker stored for that day.
C10_Witness ==
  /\ lastAgg.ticker # None
  /\ lastAgg.ret = NoAgg
  /\ \E i \in 1..Len(mentions) :
       /\ mentions[i].ticker # lastAgg.ticker
       /\ articles[mentions[i].article_id].day = lastAgg.date

\* The aggregate stored for (ticker, date - 3 days), NoAgg when absent.
PriorAgg(ticker, date) ==
  IF date - 3 \in Days THEN daily[ticker][date - 3] ELSE NoAgg

\* The trend of the statement: delta = today's mean - prior mean, against
\* +0.1 and -0.1 (means as sum / count, in hundredths).
ExpectedTrend(today, prior) ==
  IF prior = NoAgg THEN "stable"
  ELSE LET num == today.sum * prior.article_count
                    - prior.sum * today.article_count
           den == today.article_count * prior.article_count
       IN  IF num >= 10 * den THEN "improving"
           ELSE IF num <= (-10) * den THEN "declining"
           ELSE "stable"

DayMentions(ticker, date) ==
  {i \in 1..Len(mentions) :
     /\ mentions[i].ticker = ticker
     /\ articles[mentions[i].article_id].day = date}

RECURSIVE ScoreSum(_)
ScoreSum(ids) ==
  IF ids = {} THEN 0
  ELSE LET i == CHOOSE k \in ids : TRUE
       IN  mentions[i].score + ScoreSum(ids \ {i})

\* The last Aggregation call met a row computed from the same Mentions.
ReaggregatedUnchanged ==
  /\ lastAgg.ret # NoAgg
  /\ lastAgg.replaced # NoAgg
  /\ lastAgg.replaced.article_count = lastAgg.ret.article_count

\* C12 as stated: Aggregation called again for a (ticker, date) whose
\* Mentions are unchanged stores a row identical in every field.
C12_RecomputeIsIdentical ==
  ReaggregatedUnchanged => lastAgg.ret = lastAgg.replaced

\* C12, amended: Aggregation called again for a (ticker, date) whose
\* Mentions are unchanged stores the same mean, article count and top
\* topics (trend and brief are produced anew by the call); in every case
\* the one row of the key is replaced whole by the row computed from the
\* Mentions stored now, and a template brief carries the new values.
C12_RecomputeOverwrites ==
  [][(lastAgg'.tick # lastAgg.tick /\ lastAgg'.ret # NoAgg) =>
      LET new == lastAgg'.ret
          old == daily[lastAgg'.ticker][lastAgg'.date]
          ids == DayMentions(lastAgg'.ticker, lastAgg'.date)
      IN  /\ daily'[lastAgg'.ticker][lastAgg'.date] = new
          /\ \A t \in Tickers, d \in Days :
               <<t, d>> # <<lastAgg'.ticker, lastAgg'.date>>
                 => daily'[t][d] = daily[t][d]
          /\ new.article_count = Cardinality(ids)
          /\ new.sum = ScoreSum(ids)
          /\ new.brief.kind = "template" =>
               /\ new.brief.article_count = new.article_count
               /\ new.brief.sum = new.sum
          /\ (old # NoAgg /\ old.article_count = new.article_count) =>
               /\ new.sum = old.sum
               /\ new.top_topics = old.top_topics]_vars

\* A day aggregated over one Mention was aggregated again after a second
\* Mention was stored: count, mean and brief of the row all changed.
C12_Witness ==
  /\ lastAgg.ret # NoAgg
  /\ lastAgg.replaced # NoAgg
  /\ lastAgg.replaced.article_count = 1
  /\ lastAgg.ret.article_count = 2
  /\ lastAgg.ret.sum # lastAgg.replaced.sum
  /\ lastAgg.ret.brief # lastAgg.replaced.brief
  /\ daily[lastAgg.ticker][lastAgg.date] = lastAgg.ret

\* C13: when a pipeline run has returned, every day for which the run
\* stored a new Mention has an aggregate whose article count and mean are
\* those of all the Mentions stored for that day.
C13_NewMentionsAreAggregated ==
  run[1].pc = "done" =>
    \A i \in 1..Len(run[1].new_articles) :
      LET aid == run[1].new_articles[i].id
          ids == DayMentions(run[1].ticker, articles[aid].day)
          agg == daily[run[1].ticker][articles[aid].day]
      IN  HasMention(aid) =>
            /\ agg # NoAgg
            /\ agg.article_count = Cardinality(ids)
            /\ agg.sum = ScoreSum(ids)

\* The articles of a sequence of article ids.
Members(seq) == {seq[i] : i \in 1..Len(seq)}

\* The score an article is ranked with in the question just answered.
RankScore(aid) == SentimentOf(articles, mentions, answer.ticker)[aid]

\* C14: with at least 6 scored articles in range and a successful service
\* call, answer() returns exactly 5 distinct related articles, ascending by
\* score: the first 3 have the lowest scores of the range, the last 2 the
\* highest.
C14_ThreeLowestTwoHighest ==
  (answer.kind = "text" /\ Len(answer.pool) >= 6) =>
    LET r == answer.related
    IN  /\ Len(r) = 5
        /\ Members(r) \subseteq Members(answer.pool)
        /\ \A i, j \in 1..Len(r) : r[i] = r[j] => i = j
        /\ \A i \in 1..(Len(r) - 1) : RankScore(r[i]) <= RankScore(r[i + 1])
        /\ \A a \in Members(answer.pool) \ {r[1], r[2], r[3]} :
             RankScore(a) >= RankScore(r[3])
        /\ \A a \in Members(answer.pool) \ {r[4], r[5]} :
             RankScore(a) <= RankScore(r[4])

\* Seven scored articles were in range, with ties among the lowest and
\* a gap between the third and the fourth returned article.
C14_Witness ==
  /\ answer.kind = "text"
  /\ Len(answer.pool) = 7
  /\ Len(answer.related) = 5
  /\ RankScore(answer.related[1]) = RankScore(answer.related[2])
  /\ RankScore(answer.related[3]) < RankScore(answer.related[4])
  /\ RankScore(answer.related[4]) < RankScore(answer.related[5])

\* C15: when no DailyAggregate of the ticker lies in [start_date,
\* end_date], answer() returns the fixed "no data" message and an empty
\* related-article list, and makes no service call.
C15_NoAggregateNoCall ==
  ( /\ answer.kind # "none"
    /\ \A d \in Days :
         (answer.start_date <= d /\ d <= answer.end_date)
           => daily[answer.ticker][d] = NoAgg )
  => /\ answer.kind = "no_data"
     /\ answer.text = NoDataMessage
     /\ answer.related = <<>>
     /\ answer.svc = 0

\* The question was answered "no data" although scored articles of the
\* ticker lie in the range.
C15_Witness ==
  /\ answer.kind = "no_data"
  /\ answer.svc = 0
  /\ \E i \in 1..Len(mentions) :
       /\ mentions[i].ticker = answer.ticker
       /\ answer.start_date <= articles[mentions[i].article_id].day
       /\ articles[mentions[i].article_id].day < answer.end_date

\* C16 as stated: a failed service call gives the error answer with an
\* empty related-article list; a successful one was the only call and its
\* text is returned unmodified.
C16_TextReturnedUnmodified ==
  /\ answer.kind = "error" =>
       answer.text = ErrorMessage /\ answer.related = <<>>
  /\ answer.kind = "text" => answer.svc = 1 /\ answer.text = answer.raw

\* C16, amended: a failed service call gives the error answer with an
\* empty related-article list; a successful one was the only call and its
\* text is returned with the surrounding whitespace removed.
C16_TextReturnedStripped ==
  /\ answer.kind = "error" =>
       /\ answer.text = ErrorMessage
       /\ answer.related = <<>>
       /\ answer.svc = 1
  /\ answer.kind = "text" =>
       /\ answer.svc = 1
       /\ answer.raw \in {"answer", " answer "}
       /\ answer.text = "answer"

\* The service call failed while six articles were ranked for the answer.
C16_Witness ==
  /\ answer.kind = "error"
  /\ Len(answer.pool) >= 6
  /\ answer.related = <<>>

\* C17: within one pipeline invocation every search request is issued
\* before the first Scoring call, Scoring takes the new articles one at a
\* time, and every Scoring call happens before the first Aggregation call.
C17_StagesInOrder ==
  [][\A p \in Procs :
       (run[p].job = "pipeline" /\ run'[p].job = "pipeline") =>
         /\ run'[p].requests > run[p].requests =>
              run[p].attempted = {} /\ run[p].aggregated = {}
         /\ (run[p].attempted \subseteq run'[p].attempted
               /\ run'[p].attempted # run[p].attempted) =>
              /\ run[p].requests = Windows(run[p].days_back)
              /\ run[p].aggregated = {}
              /\ run'[p].attempted =
                   run[p].attempted \cup {CurrentArticle(p)}
         /\ (run[p].aggregated \subseteq run'[p].aggregated
               /\ run'[p].aggregated # run[p].aggregated) =>
              \A i \in 1..Len(run[p].new_articles) :
                run[p].new_articles[i].id \in run[p].attempted]_vars

\* A run issued two requests, scored two new articles and aggregated
\* their two days.
C17_Witness ==
  /\ run[1].pc = "done"
  /\ run[1].requests = 2
  /\ Cardinality(run[1].attempted) = 2
  /\ Cardinality(run[1].aggregated) = 2

\* C18: every stored Mention has a score within [-1.0, 1.0].
C18_ScoreWithinUnitRange ==
  \A i \in 1..Len(mentions) :
    mentions[i].score >= -100 /\ mentions[i].score <= 100

\* C19: every stored Mention has at most 3 topics.
C19_AtMostThreeTopics ==
  \A i \in 1..Len(mentions) : Len(mentions[i].topics) <= 3

\* A topic of the response, lowercased and trimmed.
Trimmed(topic) == Strip(Lower(topic))

\* Where a normalized topic first occurs in the response's list.
FirstAt(raw, t) ==
  CHOOSE i \in 1..Len(raw) :
    /\ Trimmed(raw[i]) = t
    /\ \A j \in 1..(i - 1) : Trimmed(raw[j]) # t

\* out is raw lowercased and trimmed, without the empty results and the
\* later duplicates, in the order of the first occurrences.
IsNormalized(raw, out) ==
  /\ \A k \in 1..Len(out) :
       out[k] # "" /\ \E i \in 1..Len(raw) : Trimmed(raw[i]) = out[k]
  /\ \A k, l \in 1..Len(out) : out[k] = out[l] => k = l
  /\ \A i \in 1..Len(raw) :
       Trimmed(raw[i]) # "" => \E k \in 1..Len(out) : out[k] = Trimmed(raw[i])
  /\ \A k, l \in 1..Len(out) :
       k < l => FirstAt(raw, out[k]) < FirstAt(raw, out[l])

\* C20: the topic list stored in a Mention (and returned by the call) is
\* the response's list lowercased and trimmed, empty results removed, later
\* case-insensitive duplicates dropped, first occurrences in their order;
\* the example list becomes <<"regulatory concerns", "earnings">>.
C20_TopicsNormalized ==
  (lastScore.svc = 1 /\ lastScore.ret # NoMention) =>
    LET raw == lastScore.resp.payload.topics
        out == mentions[lastScore.ret.id].topics
    IN  /\ IsNormalized(raw, out)
        /\ lastScore.ret.topics = out
        /\ raw = ExampleTopics => out = <<"regulatory concerns", "earnings">>

\* The response carried the example list and its Mention is stored.
C20_Witness ==
  /\ lastScore.svc = 1
  /\ lastScore.ret # NoMention
  /\ lastScore.resp.payload.topics = ExampleTopics
  /\ mentions[lastScore.ret.id].topics = <<"regulatory concerns", "earnings">>

\* C21: for every lookback and every pattern of failed requests, extract
\* returns after exactly ceil(lookback / 7) requests, one per sub-window;
\* the sub-windows run from now backwards, each at most 7 days wide, each
\* starting where the one before ended, and the last ends at now - lookback.
WindowsInOrder(p) ==
  LET w == run[p].windows
      d == run[p].days_back
  IN  /\ Len(w) = run[p].requests
      /\ \A i \in 1..Len(w) :
           /\ w[i].to < w[i].from
           /\ w[i].from - w[i].to <= chunk_size
           /\ w[i].from <= d
           /\ w[i].to = IF i = 1 THEN 0 ELSE w[i - 1].from
      /\ ExtractReturned(p) =>
           /\ d > 0
           /\ Len(w) = Windows(d)
           /\ w[Len(w)].from = d

C21_WindowsCoverLookback ==
  /\ [](\A p \in Procs : WindowsInOrder(p))
  /\ \A p \in Procs : (run[p].pc = "extract") ~> ExtractReturned(p)

\* A lookback of 15 days was read in three requests, two of which failed.
C21_Witness ==
  /\ run[1].pc = "score"
  /\ run[1].days_back = 15
  /\ run[1].requests = 3
  /\ run[1].failed = 2
  /\ run[1].windows[3].from - run[1].windows[3].to = 1

\* C22: the pageSize of every request is max(10, budget div N), N being the
\* number of sub-windows requested for the lookback.
C22_PageSizeSharesBudget ==
  \A p \in Procs :
    ExtractReturned(p) =>
      \A i \in 1..Len(run[p].windows) :
        LET share == MAX_ARTICLES_PER_REQUEST \div run[p].requests
        IN  run[p].windows[i].pageSize =
              IF share > MinArticlesPerChunk THEN share
              ELSE MinArticlesPerChunk

\* C23: the mean an aggregation stores is the arithmetic mean (sum / count)
\* of the scores of exactly the Mentions of that (ticker, date), and
\* article_count is their number; three Mentions with scores 0.6, -0.2 and
\* 0.4 give article_count 3 and a mean of 0.8 / 3.
C23_MeanOfDayMentions ==
  lastAgg.ticker # None =>
    LET ids == DayMentions(lastAgg.ticker, lastAgg.date)
    IN  /\ ids # {} => lastAgg.ret # NoAgg
        /\ lastAgg.ret # NoAgg =>
             /\ lastAgg.ret.article_count = Cardinality(ids)
             /\ lastAgg.ret.sum = ScoreSum(ids)
             /\ {mentions[i].score : i \in ids} = {60, -20, 40} =>
                  /\ lastAgg.ret.article_count = 3
                  /\ lastAgg.ret.sum = 80

\* The topic lists of the day's Mentions as the aggregation read them, one
\* after the other.
TopicsRead(ticker, date) ==
  Flatten(mentions, GetMentionsByDate(articles, mentions, ticker, date))

FirstPos(all, t) == CHOOSE i \in 1..Len(all) :
                      all[i] = t /\ \A j \in 1..(i - 1) : all[j] # t

Occurrences(all, t) == Cardinality({i \in 1..Len(all) : all[i] = t})

\* top holds the most frequent topics of all, at most 5, by descending
\* count and, at equal counts, in the order of their first occurrences.
RankedTopics(top, all) ==
  LET seen == {all[i] : i \in 1..Len(all)}
      in_top == {top[i] : i \in 1..Len(top)}
  IN  /\ Len(top) <= 5
      /\ Len(top) = IF Cardinality(seen) < 5 THEN Cardinality(seen) ELSE 5
      /\ in_top \subseteq seen
      /\ \A i, j \in 1..Len(top) : i < j =>
           /\ top[i] # top[j]
           /\ \/ Occurrences(all, top[i]) > Occurrences(all, top[j])
              \/ /\ Occurrences(all, top[i]) = Occurrences(all, top[j])
                 /\ FirstPos(all, top[i]) < FirstPos(all, top[j])
      /\ \A t \in seen \ in_top : \A i \in 1..Len(top) :
           \/ Occurrences(all, t) < Occurrences(all, top[i])
           \/ /\ Occurrences(all, t) = Occurrences(all, top[i])
              /\ FirstPos(all, t) > FirstPos(all, top[i])

\* C24: top_topics holds at most 5 distinct topics in descending order of
\* their number of occurrences over the topic lists of the day's Mentions,
\* equal counts in first-encountered order, and no topic left out occurs
\* more often than one that is in the list.
C24_TopTopicsRanked ==
  lastAgg.ret # NoAgg =>
    /\ RankedTopics(lastAgg.ret.top_topics,
                    TopicsRead(lastAgg.ticker, lastAgg.date))
    /\ daily[lastAgg.ticker][lastAgg.date].top_topics
         = lastAgg.ret.top_topics

\* Six topics over three Mentions: the two that occur twice lead, in the
\* order of their first occurrences, and the sixth is dropped.
C24_Witness ==
  /\ lastAgg.ret # NoAgg
  /\ TopicsRead(lastAgg.ticker, lastAgg.date)
       = <<"recall", "lawsuit", "robotaxi", "earnings", "guidance",
           "margins", "robotaxi", "margins">>
  /\ lastAgg.ret.top_topics
       = <<"robotaxi", "margins", "recall", "lawsuit", "earnings">>

\* The label of a mean sum / n by the +0.25 and -0.25 thresholds.
ExpectedLabel(sum, n) ==
  IF sum >= 25 * n THEN "positive"
  ELSE IF sum <= (-25) * n THEN "negative"
  ELSE "neutral"

\* C25: when the brief's service call fails, the aggregation still upserts
\* and returns the row, with the mean, count, trend and topics of the
\* Mentions it read and a brief that is the template over the article
\* count, the mean, the mean's label and the first three top topics.
C25_BriefFallsBackToTemplate ==
  lastAgg.brief_call = "error" =>
    LET ret == lastAgg.ret
        ids == GetMentionsByDate(articles, mentions, lastAgg.ticker,
                                 lastAgg.date)
    IN  /\ ret # NoAgg
        /\ daily[lastAgg.ticker][lastAgg.date] = ret
        /\ ret.article_count = Len(ids)
        /\ ret.sum = ScoreSum({ids[i] : i \in 1..Len(ids)})
        /\ ret.trend =
             ExpectedTrend(ret, PriorAgg(lastAgg.ticker, lastAgg.date))
        /\ RankedTopics(ret.top_topics,
                        TopicsRead(lastAgg.ticker, lastAgg.date))
        /\ ret.brief =
             [kind |-> "template", article_count |-> ret.article_count,
              label |-> ExpectedLabel(ret.sum, ret.article_count),
              sum |-> ret.sum,
              topics |-> SubSeq(ret.top_topics, 1,
                           IF Len(ret.top_topics) < 3
                           THEN Len(ret.top_topics) ELSE 3)]

\* The call failed on a day whose mean of 0.8 / 3 is labelled positive and
\* improved against day 1, with more than three top topics.
C25_Witness ==
  /\ lastAgg.brief_call = "error"
  /\ lastAgg.ret # NoAgg
  /\ lastAgg.ret.sum = 80
  /\ lastAgg.ret.article_count = 3
  /\ lastAgg.ret.brief.label = "positive"
  /\ lastAgg.ret.trend = "improving"
  /\ Len(lastAgg.ret.top_topics) > 3
  /\ Len(lastAgg.ret.brief.topics) = 3

\* The rows of the range the last question read, oldest first.
RowsRead ==
  LET dates == {d \in Days : /\ answer.start_date <= d
                             /\ d <= answer.end_date
                             /\ daily[answer.ticker][d] # NoAgg}
  IN  [i \in 1..Cardinality(dates) |->
         daily[answer.ticker][
           CHOOSE d \in dates :
             Cardinality({e \in dates : e < d}) = i - 1]]

\* The sum of the rows' means, times den (a multiple of every article
\* count that occurs).
RECURSIVE MeansNum(_, _)
MeansNum(rows, den) ==
  IF rows = <<>> THEN 0
  ELSE (Head(rows).sum * den) \div Head(rows).article_count
         + MeansNum(Tail(rows), den)

\* recent > older + 0.1 gives improving, recent < older - 0.1 declining,
\* for the means of the last three and of the first three daily means.
TrendOfMeans(rows) ==
  LET n == Len(rows)
      k == IF n < 3 THEN n ELSE 3
      den == 6 * k
      recent == MeansNum(SubSeq(rows, n - k + 1, n), den)
      older == MeansNum(SubSeq(rows, 1, k), den)
  IN  IF recent > older + 10 * den * k THEN "improving"
      ELSE IF recent < older - 10 * den * k THEN "declining"
      ELSE "stable"

\* C26 as stated: for every non-empty set of aggregates in range the trend
\* of the context comes from the daily means alone and never from the
\* stored trend field.
C26_TrendFromMeansAlone ==
  answer.kind \in {"text", "error"} =>
    answer.trend = TrendOfMeans(RowsRead)

\* C26: with two or more aggregates in range the trend of the context is
\* derived from the daily means alone (last three against first three,
\* strict comparisons with +0.1 and -0.1); with exactly one aggregate in
\* range it is the trend field stored for that aggregate.
C26_TrendFromMeansUnlessSingle ==
  answer.kind \in {"text", "error"} =>
    answer.trend = IF Len(RowsRead) > 1 THEN TrendOfMeans(RowsRead)
                   ELSE RowsRead[1].trend

\* Four aggregates in range whose recent mean lies exactly 0.1 above the
\* older one: the context says stable while the row of the last day is
\* stored as improving.
C26_Witness ==
  /\ answer.kind = "text"
  /\ Len(RowsRead) = 4
  /\ RowsRead[4].sum - RowsRead[1].sum = 30
  /\ answer.trend = "stable"
  /\ RowsRead[4].trend = "improving"

\* The callers whose list of newly stored articles holds the url.
HoldersOf(url) ==
  {p \in Procs :
     \E i \in 1..Len(run[p].new_articles) :
       articles[run[p].new_articles[i].id].url = url}

\* The caller was given the url in a response and is past its insert.
PastInsertOf(p, url) ==
  /\ url \in run[p].returned
  /\ ~(run[p].pc = "insert" /\ run[p].cand.url = url)

\* C27: when two concurrent extract calls receive the same candidate URL,
\* the store ends with exactly one Article for it, at most one of the
\* calls has it among its newly stored articles (and has it once), and
\* neither call raises.
C27_ConcurrentSameUrl ==
  /\ \A c \in Candidates :
       /\ Cardinality({i \in 1..Len(articles) : articles[i].url = c.url})
            <= 1
       /\ Cardinality(HoldersOf(c.url)) <= 1
       /\ \A p \in Procs :
            /\ Cardinality({i \in 1..Len(run[p].new_articles) :
                  articles[run[p].new_articles[i].id].url = c.url}) <= 1
            /\ (c.body /\ PastInsertOf(p, c.url)) => Stored(c.url)
  /\ \A p \in Procs :
       run[p].pc \in {"extract", "page", "insert"} => run[p].errors = 0

\* Both runs were given the same URL before either had stored it: the
\* second insert met the unique constraint, one run holds the article and
\* both have returned from extract.
C27_Witness ==
  /\ lastInsert.id = 0
  /\ \A p \in Procs :
       /\ lastInsert.url \in run[p].returned
       /\ run[p].pc = "score"
       /\ run[p].errors = 0
  /\ Cardinality(HoldersOf(lastInsert.url)) = 1
  /\ Cardinality({i \in 1..Len(articles) :
        articles[i].url = lastInsert.url}) = 1

\* C28: a Mention returned by score(article_id, ticker) is a judgment for
\* the requested ticker: the row it names is stored under that ticker,
\* also when the article was scored for another ticker before.
C28_MentionIsForRequestedTicker ==
  lastScore.ret # NoMention =>
    /\ lastScore.ret.id \in 1..Len(mentions)
    /\ mentions[lastScore.ret.id].article_id = lastScore.article_id
    /\ mentions[lastScore.ret.id].ticker = lastScore.ticker

\* C29: the related-article list an answer returns holds no article twice
\* and is never longer than the number of scored articles in range.
C29_RelatedArticlesDistinct ==
  answer.kind = "text" =>
    /\ \A i, j \in 1..Len(answer.related) :
         i # j => answer.related[i] # answer.related[j]
    /\ Len(answer.related) <= Len(answer.pool)

\* C30: when a run has completed after aggregating both a date D and the
\* date D - 3 days, the trend stored for D agrees with the means stored
\* for D and D - 3, whatever the order in which the dates were processed.
C30_TrendAgreesAfterRun ==
  \A p \in Procs :
    (run[p].job = "pipeline" /\ run[p].pc = "done") =>
      \A d \in run[p].aggregated :
        ( /\ d - 3 \in run[p].aggregated
          /\ daily[run[p].ticker][d] # NoAgg
          /\ daily[run[p].ticker][d - 3] # NoAgg )
        => daily[run[p].ticker][d].trend =
             ExpectedTrend(daily[run[p].ticker][d],
                           daily[run[p].ticker][d - 3])

====
